---- MODULE Spec2Model ----
(***************************************************************************)
(* Warbler (flask-blogly): the request handlers of app.py over the users,  *)
(* messages, follows and likes tables, with one session per browser.       *)
(* The ORM layer of models.py (User.signup, User.authenticate, the         *)
(* relationship collections, the table constraints) follows sections 3 to  *)
(* 6 of the design specification.  Message text, the optional profile     *)
(* fields (image_url, header_image_url, bio) and the read-only user pages  *)
(* carry no state the handlers below depend on.                            *)
(***************************************************************************)
EXTENDS Integers, Sequences, FiniteSets, TLC

\* ------------------------------------------------------------------ bounds
\* caps on the id sequences of users and messages
MaxUserId == 2
MaxMsgId == 1
\* messages posted in the feed scenario (SpecFeed): one more than the limit
MaxFeedMsgId == 101

\* app.py:412  followed_messages[:100]
FeedLimit == 100

UserIds == 1..MaxUserId
MsgIds == 1..MaxMsgId

\* the inputs the requests draw from; a password is a string of character codes
Names == {"u1", "u2"}
Emails == {"u1@email.com", "u2@email.com"}
Passwords == {<<1>>, <<2>>}
Salts == {1, 2}
Clients == {"c1", "c2"}
\* the full specification drives one browser; the others drive both
OneClient == {"c1"}

\* the signup forms of the full specification: one per username
SignupForms ==
    {[username |-> "u1", email |-> "u1@email.com", password |-> <<1>>, salt |-> 1],
     [username |-> "u2", email |-> "u2@email.com", password |-> <<1>>, salt |-> 2]}

VARIABLES
    users,      \* table users: rows [id, username, email, password]
    messages,   \* table messages: rows [id, user_id, timestamp]
    follows,    \* table follows: per stored row [user_following_id,
                \*   user_being_followed_id], the number of copies held
    likes,      \* table likes: per stored row [user_id, message_id], the copies
    session,    \* per client, the ids stored under CURR_USER_KEY (none or one)
    nextUserId, \* users.id sequence
    nextMsgId,  \* messages.id sequence, also the server clock of created_at
    inflight,   \* per client, the unit of work of a request that has not yet
                \*   reached db.session.commit() (none or one)
    last        \* the last request handled and its outcome

vars ==
    <<users, messages, follows, likes, session, nextUserId, nextMsgId, inflight, last>>
tables == <<users, messages, follows, likes>>

\* ------------------------------------------------- password hasher (4.1)
\* One-way transform with the salt embedded in the output.
Digest(plain, salt) == (plain[1] * 2 + salt) % 5
generate_password_hash(plain, salt) == <<salt, Digest(plain, salt)>>
\* Recomputes with the embedded salt and compares.
check_password_hash(hashed, plain) == generate_password_hash(plain, hashed[1]) = hashed

\* ------------------------------------------------------ data model (3, 6)
UserRow(id, username, email, hashed) ==
    [id |-> id, username |-> username, email |-> email, password |-> hashed]
MessageRow(id, user_id) == [id |-> id, user_id |-> user_id, timestamp |-> id]
FollowRow(follower, followee) ==
    [user_following_id |-> follower, user_being_followed_id |-> followee]
LikeRow(user_id, message_id) == [user_id |-> user_id, message_id |-> message_id]

IdsOf(rows) == {r.id : r \in rows}

\* an association table maps each stored row to the number of copies held
EmptyTable == [r \in {} |-> 1]
Rows(t) == DOMAIN t
\* INSERT one row
InsertRow(t, row) ==
    [r \in DOMAIN t \cup {row} |->
        IF r # row THEN t[r] ELSE IF row \in DOMAIN t THEN t[row] + 1 ELSE 1]
\* DELETE ... WHERE the row is one of gone
DeleteRows(t, gone) == [r \in DOMAIN t \ gone |-> t[r]]
\* a table that tolerates a second copy of a row
PrimaryKeyHolds_AtMostTwo(t) == \A r \in DOMAIN t : t[r] <= 2

\* composite primary key: no row is held twice
PrimaryKeyHolds(t) == \A r \in DOMAIN t : t[r] = 1

\* User.query.get / Message.query.get: the rows with that primary key
UserGet(us, id) == {u \in us : u.id = id}
MessageGet(ms, id) == {m \in ms : m.id = id}

\* relationship collections, derived from the association rows
Following(fs, uid) ==
    {f.user_being_followed_id : f \in {x \in Rows(fs) : x.user_following_id = uid}}
Followers(fs, uid) ==
    {f.user_following_id : f \in {x \in Rows(fs) : x.user_being_followed_id = uid}}
is_followed_by(fs, self, other) == other \in Followers(fs, self)
LikedMessages(ls, uid) == {l.message_id : l \in {x \in Rows(ls) : x.user_id = uid}}
UsersLikedBy(ls, mid) == {l.user_id : l \in {x \in Rows(ls) : x.message_id = mid}}

\* a users table whose only key is the id
UniqueHolds_IdOnly(us) == \A u, v \in us : u.id = v.id => u = v

\* unique username, unique email
UniqueHolds(us) ==
    \A u, v \in us : (u.username = v.username \/ u.email = v.email) => u = v

\* a schema whose only foreign key is messages.user_id
ForeignKeysHold_MessagesOnly(us, ms, fs, ls) == \A m \in ms : m.user_id \in IdsOf(us)

\* foreign keys messages/follows/likes -> users and likes -> messages, no cascade
ForeignKeysHold(us, ms, fs, ls) ==
    /\ \A m \in ms : m.user_id \in IdsOf(us)
    /\ \A f \in Rows(fs) : f.user_following_id \in IdsOf(us)
                     /\ f.user_being_followed_id \in IdsOf(us)
    /\ \A l \in Rows(ls) : l.user_id \in IdsOf(us) /\ l.message_id \in IdsOf(ms)

\* db.session.commit(): the storage layer accepts the unit or rejects it whole
CommitAccepts(us, ms, fs, ls) ==
    /\ UniqueHolds(us)
    /\ PrimaryKeyHolds(fs)
    /\ PrimaryKeyHolds(ls)
    /\ ForeignKeysHold(us, ms, fs, ls)

\* User.signup: hash the password, build the row
UserSignup(id, username, email, password, salt) ==
    UserRow(id, username, email, generate_password_hash(password, salt))

\* User.authenticate: the matching users (none stands for False)
UserAuthenticate(us, username, password) ==
    {u \in us : u.username = username /\ check_password_hash(u.password, password)}

\* ----------------------------------------------------- session handling
\* add_user_to_g that trusts the session's id without loading the row
g_user_NoLookup(c) == session[c]

\* add_user_to_g: g.user, the row the session's id names, if any
g_user(c) == {id \in session[c] : UserGet(users, id) # {}}

do_login(s, c, id) == [s EXCEPT ![c] = {id}]
do_logout(s, c) == [s EXCEPT ![c] = {}]

TheOne(S) == CHOOSE x \in S : TRUE

Init ==
    /\ users = {}
    /\ messages = {}
    /\ follows = EmptyTable
    /\ likes = EmptyTable
    /\ session = [c \in Clients |-> {}]
    /\ nextUserId = 1
    /\ nextMsgId = 1
    /\ inflight = [c \in Clients |-> {}]
    /\ last = [op |-> "start"]

\* ------------------------------------------------- signup / login / logout
\* signup without the except clause: the IntegrityError reaches the client
signup_NoExcept(c, username, email, password, salt, valid) ==
    LET user == UserSignup(nextUserId, username, email, password, salt)
        accepted == CommitAccepts(users \cup {user}, messages, follows, likes)
    IN  IF ~valid
        THEN /\ session' = do_logout(session, c)
             /\ last' = [op |-> "signup", result |-> "form"]
             /\ UNCHANGED <<inflight, tables, nextUserId, nextMsgId>>
        ELSE IF accepted
        THEN /\ users' = users \cup {user}
             /\ nextUserId' = nextUserId + 1
             /\ session' = do_login(do_logout(session, c), c, user.id)
             /\ last' = [op |-> "signup", username |-> username,
                         password |-> password,
                         id |-> user.id, result |-> "redirect"]
             /\ UNCHANGED <<inflight, messages, follows, likes, nextMsgId>>
        ELSE /\ session' = do_logout(session, c)
             /\ last' = [op |-> "signup", username |-> username,
                         password |-> password,
                         result |-> "IntegrityError"]
             /\ UNCHANGED <<inflight, tables, nextUserId, nextMsgId>>

signup(c, username, email, password, salt, valid) ==
    LET user == UserSignup(nextUserId, username, email, password, salt)
        accepted == CommitAccepts(users \cup {user}, messages, follows, likes)
    IN  IF ~valid
        THEN /\ session' = do_logout(session, c)
             /\ last' = [op |-> "signup", result |-> "form"]
             /\ UNCHANGED <<inflight, tables, nextUserId, nextMsgId>>
        ELSE IF accepted
        THEN /\ users' = users \cup {user}
             /\ nextUserId' = nextUserId + 1
             /\ session' = do_login(do_logout(session, c), c, user.id)
             /\ last' = [op |-> "signup", username |-> username,
                         password |-> password,
                         id |-> user.id, result |-> "redirect"]
             /\ UNCHANGED <<inflight, messages, follows, likes, nextMsgId>>
        ELSE /\ session' = do_logout(session, c)
             /\ last' = [op |-> "signup", username |-> username,
                         password |-> password,
                         result |-> "Username already taken"]
             /\ UNCHANGED <<inflight, tables, nextUserId, nextMsgId>>

\* login that looks the user up by username and never verifies the password
login_AnyPassword(c, username, password, valid) ==
    LET user == {u \in users : u.username = username}
    IN  /\ IF valid /\ user # {}
           THEN /\ session' = do_login(session, c, TheOne(user).id)
                /\ last' = [op |-> "login", username |-> username,
                            password |-> password,
                            result |-> "redirect"]
           ELSE /\ session' = session
                /\ last' = [op |-> "login", username |-> username,
                            password |-> password,
                            result |-> IF valid THEN "Invalid credentials."
                                       ELSE "form"]
        /\ UNCHANGED <<inflight, tables, nextUserId, nextMsgId>>

login(c, username, password, valid) ==
    LET user == UserAuthenticate(users, username, password)
    IN  /\ IF valid /\ user # {}
           THEN /\ session' = do_login(session, c, TheOne(user).id)
                /\ last' = [op |-> "login", username |-> username,
                            password |-> password,
                            result |-> "redirect"]
           ELSE /\ session' = session
                /\ last' = [op |-> "login", username |-> username,
                            password |-> password,
                            result |-> IF valid THEN "Invalid credentials."
                                       ELSE "form"]
        /\ UNCHANGED <<inflight, tables, nextUserId, nextMsgId>>

logout(c, valid) ==
    /\ IF ~valid \/ g_user(c) = {}
       THEN /\ session' = session
            /\ last' = [op |-> "logout", result |-> "Unauthorized Logout Attempted"]
       ELSE /\ session' = do_logout(session, c)
            /\ last' = [op |-> "logout", result |-> "redirect"]
    /\ UNCHANGED <<inflight, tables, nextUserId, nextMsgId>>

\* ------------------------------------------------------- follow / unfollow
\* start_following that appends to the followed user's collection instead
start_following_Swapped(c, follow_id, valid) ==
    LET me == g_user(c)
        appended == InsertRow(follows, FollowRow(follow_id, TheOne(me)))
    IN  /\ IF ~valid \/ me = {}
           THEN /\ follows' = follows
                /\ last' = [op |-> "start_following", result |-> "Unauthorized"]
           ELSE IF UserGet(users, follow_id) = {}
           THEN /\ follows' = follows
                /\ last' = [op |-> "start_following", result |-> "404"]
           ELSE IF ~CommitAccepts(users, messages, appended, likes)
           THEN /\ follows' = follows
                /\ last' = [op |-> "start_following", result |-> "IntegrityError"]
           ELSE /\ follows' = appended
                /\ last' = [op |-> "start_following", result |-> "redirect"]
        /\ UNCHANGED <<inflight, users, messages, likes, session, nextUserId, nextMsgId>>

start_following(c, follow_id, valid) ==
    LET me == g_user(c)
        appended == InsertRow(follows, FollowRow(TheOne(me), follow_id))
    IN  /\ IF ~valid \/ me = {}
           THEN /\ follows' = follows
                /\ last' = [op |-> "start_following", result |-> "Unauthorized"]
           ELSE IF UserGet(users, follow_id) = {}
           THEN /\ follows' = follows
                /\ last' = [op |-> "start_following", result |-> "404"]
           ELSE IF ~CommitAccepts(users, messages, appended, likes)
           THEN \* a second row with the same composite key is rejected at commit
                /\ follows' = follows
                /\ last' = [op |-> "start_following", result |-> "IntegrityError"]
           ELSE /\ follows' = appended
                /\ last' = [op |-> "start_following", result |-> "redirect"]
        /\ UNCHANGED <<inflight, users, messages, likes, session, nextUserId, nextMsgId>>

stop_following(c, follow_id) ==
    LET me == g_user(c)
    IN  /\ IF me = {}
           THEN /\ follows' = follows
                /\ last' = [op |-> "stop_following", result |-> "Access unauthorized."]
           ELSE IF UserGet(users, follow_id) = {}
           THEN /\ follows' = follows
                /\ last' = [op |-> "stop_following", result |-> "404"]
           ELSE IF follow_id \notin Following(follows, TheOne(me))
           THEN \* list.remove(x) of an absent x raises ValueError
                /\ follows' = follows
                /\ last' = [op |-> "stop_following", result |-> "ValueError"]
           ELSE /\ follows' = DeleteRows(follows, {FollowRow(TheOne(me), follow_id)})
                /\ last' = [op |-> "stop_following", result |-> "redirect"]
        /\ UNCHANGED <<inflight, users, messages, likes, session, nextUserId, nextMsgId>>

\* ---------------------------------------------------------------- account
\* delete_user whose message query has lost its filter on Message.user_id
delete_user_AllMessages(c, valid) ==
    LET me == g_user(c)
        uid == TheOne(me)
        keptMessages == {}
        keptLikes == DeleteRows(likes, {l \in Rows(likes) : l.user_id = uid})
        keptUsers == users \ UserGet(users, uid)
    IN  IF me = {} \/ ~valid
        THEN /\ last' = [op |-> "delete_user", result |-> "Access unauthorized."]
             /\ UNCHANGED <<inflight, tables, session, nextUserId, nextMsgId>>
        ELSE IF CommitAccepts(keptUsers, keptMessages, follows, keptLikes)
        THEN /\ session' = do_logout(session, c)
             /\ users' = keptUsers
             /\ messages' = keptMessages
             /\ likes' = keptLikes
             /\ last' = [op |-> "delete_user", result |-> "redirect"]
             /\ UNCHANGED <<inflight, follows, nextUserId, nextMsgId>>
        ELSE /\ session' = do_logout(session, c)
             /\ last' = [op |-> "delete_user", result |-> "IntegrityError"]
             /\ UNCHANGED <<inflight, tables, nextUserId, nextMsgId>>

delete_user(c, valid) ==
    LET me == g_user(c)
        uid == TheOne(me)
        keptMessages == {m \in messages : m.user_id # uid}
        keptLikes == DeleteRows(likes, {l \in Rows(likes) : l.user_id = uid})
        keptUsers == users \ UserGet(users, uid)
    IN  IF me = {} \/ ~valid
        THEN /\ last' = [op |-> "delete_user", result |-> "Access unauthorized."]
             /\ UNCHANGED <<inflight, tables, session, nextUserId, nextMsgId>>
        ELSE IF CommitAccepts(keptUsers, keptMessages, follows, keptLikes)
        THEN /\ session' = do_logout(session, c)
             /\ users' = keptUsers
             /\ messages' = keptMessages
             /\ likes' = keptLikes
             /\ last' = [op |-> "delete_user", result |-> "redirect"]
             /\ UNCHANGED <<inflight, follows, nextUserId, nextMsgId>>
        ELSE \* the commit is rejected; do_logout() has already run
             /\ session' = do_logout(session, c)
             /\ last' = [op |-> "delete_user", result |-> "IntegrityError"]
             /\ UNCHANGED <<inflight, tables, nextUserId, nextMsgId>>

\* ---------------------------------------------------------------- profile
\* `user.username = form.username.data,` binds a one-element tuple
OneTuple(value) == <<value>>
\* the database driver renders a one-element tuple ('x',) as ('x'): the scalar
AdaptTuple(bound) == bound[1]

\* edit_profile that also stores the password field of the form
edit_profile_SetsPassword(c, username, email, password, valid) ==
    LET me == g_user(c)
        user == TheOne(UserGet(users, TheOne(me)))
        assigned == [user EXCEPT !.username = OneTuple(username),
                                 !.email = OneTuple(email),
                                 !.password = password]
        flushed == [assigned EXCEPT !.username = AdaptTuple(@),
                                    !.email = AdaptTuple(@)]
        updated == (users \ {user}) \cup {flushed}
    IN  /\ IF ~valid
           THEN /\ users' = users
                /\ last' = [op |-> "edit_profile", result |-> "form"]
           ELSE IF me = {}
           THEN /\ users' = users
                /\ last' = [op |-> "edit_profile", result |-> "AttributeError"]
           ELSE IF UserAuthenticate(users, user.username, password) = {}
           THEN /\ users' = users
                /\ last' = [op |-> "edit_profile", result |->
                               "Incorrect username/password combination entered"]
           ELSE IF CommitAccepts(updated, messages, follows, likes)
           THEN /\ users' = updated
                /\ last' = [op |-> "edit_profile", result |-> "redirect"]
           ELSE /\ users' = users
                /\ last' = [op |-> "edit_profile", result |-> "IntegrityError"]
        /\ UNCHANGED <<inflight, messages, follows, likes, session, nextUserId, nextMsgId>>

edit_profile(c, username, email, password, valid) ==
    LET me == g_user(c)
        user == TheOne(UserGet(users, TheOne(me)))
        \* the trailing commas of lines 265 and 266
        assigned == [user EXCEPT !.username = OneTuple(username),
                                 !.email = OneTuple(email)]
        \* the UPDATE of the flush, its parameters adapted by the driver
        flushed == [assigned EXCEPT !.username = AdaptTuple(@),
                                    !.email = AdaptTuple(@)]
        updated == (users \ {user}) \cup {flushed}
    IN  /\ IF ~valid
           THEN /\ users' = users
                /\ last' = [op |-> "edit_profile", result |-> "form"]
           ELSE IF me = {}
           THEN \* user is None: user.username raises before anything is written
                /\ users' = users
                /\ last' = [op |-> "edit_profile", result |-> "AttributeError"]
           ELSE IF UserAuthenticate(users, user.username, password) = {}
           THEN /\ users' = users
                /\ last' = [op |-> "edit_profile", result |->
                               "Incorrect username/password combination entered"]
           ELSE IF CommitAccepts(updated, messages, follows, likes)
           THEN /\ users' = updated
                /\ last' = [op |-> "edit_profile", result |-> "redirect"]
           ELSE \* the commit is rejected and nothing catches the IntegrityError
                /\ users' = users
                /\ last' = [op |-> "edit_profile", result |-> "IntegrityError"]
        /\ UNCHANGED <<inflight, messages, follows, likes, session, nextUserId, nextMsgId>>

\* --------------------------------------------------------------- messages
add_message(c, valid) ==
    LET me == g_user(c)
    IN  IF me = {}
        THEN /\ last' = [op |-> "add_message", result |-> "Access unauthorized."]
             /\ UNCHANGED <<inflight, tables, session, nextUserId, nextMsgId>>
        ELSE IF ~valid
        THEN /\ last' = [op |-> "add_message", result |-> "form"]
             /\ UNCHANGED <<inflight, tables, session, nextUserId, nextMsgId>>
        ELSE /\ messages' = messages \cup {MessageRow(nextMsgId, TheOne(me))}
             /\ nextMsgId' = nextMsgId + 1
             /\ last' = [op |-> "add_message", result |-> "redirect"]
             /\ UNCHANGED <<inflight, users, follows, likes, session, nextUserId>>

delete_message(c, message_id, valid) ==
    LET me == g_user(c)
        message == MessageGet(messages, message_id)
        kept == messages \ message
    IN  /\ IF message = {}
           THEN /\ messages' = messages
                /\ last' = [op |-> "delete_message", result |-> "404"]
           ELSE IF me = {} \/ TheOne(message).user_id # TheOne(me) \/ ~valid
           THEN /\ messages' = messages
                /\ last' = [op |-> "delete_message", result |-> "Access unauthorized."]
           ELSE IF CommitAccepts(users, kept, follows, likes)
           THEN /\ messages' = kept
                /\ last' = [op |-> "delete_message", result |-> "redirect"]
           ELSE /\ messages' = messages
                /\ last' = [op |-> "delete_message", result |-> "IntegrityError"]
        /\ UNCHANGED <<inflight, users, follows, likes, session, nextUserId, nextMsgId>>

\* a like button that only ever appends
ToggleLike_AppendOnly(ls, uid, mid) ==
    IF mid \in LikedMessages(ls, uid) THEN ls ELSE InsertRow(ls, LikeRow(uid, mid))

\* g.user.liked_messages: remove the message when present, append it otherwise
ToggleLike(ls, uid, mid) ==
    IF mid \in LikedMessages(ls, uid)
    THEN DeleteRows(ls, {LikeRow(uid, mid)})
    ELSE InsertRow(ls, LikeRow(uid, mid))

\* toggle_like without the check that the message is the actor's own
toggle_like_NoOwnerCheck(c, message_id, valid) ==
    LET me == g_user(c)
        message == MessageGet(messages, message_id)
    IN  /\ IF ~valid \/ me = {}
           THEN /\ likes' = likes
                /\ last' = [op |-> "toggle_like", arg |-> message_id,
                            csrf |-> valid, result |-> "Unauthorized"]
           ELSE IF message = {}
           THEN /\ likes' = likes
                /\ last' = [op |-> "toggle_like", arg |-> message_id,
                            csrf |-> valid, result |-> "404"]
           ELSE /\ likes' = ToggleLike(likes, TheOne(me), message_id)
                /\ last' = [op |-> "toggle_like", arg |-> message_id,
                            csrf |-> valid, result |-> "redirect"]
        /\ UNCHANGED <<inflight, users, messages, follows, session, nextUserId, nextMsgId>>

toggle_like(c, message_id, valid) ==
    LET me == g_user(c)
        message == MessageGet(messages, message_id)
    IN  /\ IF ~valid \/ me = {}
           THEN /\ likes' = likes
                /\ last' = [op |-> "toggle_like", arg |-> message_id,
                            csrf |-> valid, result |-> "Unauthorized"]
           ELSE IF message = {}
           THEN /\ likes' = likes
                /\ last' = [op |-> "toggle_like", arg |-> message_id,
                            csrf |-> valid, result |-> "404"]
           ELSE IF TheOne(message).user_id = TheOne(me)
           THEN /\ likes' = likes
                /\ last' = [op |-> "toggle_like", arg |-> message_id,
                            csrf |-> valid, result |-> "Unauthorized"]
           ELSE /\ likes' = ToggleLike(likes, TheOne(me), message_id)
                /\ last' = [op |-> "toggle_like", arg |-> message_id,
                            csrf |-> valid, result |-> "redirect"]
        /\ UNCHANGED <<inflight, users, messages, follows, session, nextUserId, nextMsgId>>

\* ------------------------------------------------------------------- feed
RECURSIVE Orders(_)
\* Message.query.all() has no ORDER BY: any enumeration of the rows
Orders(ms) ==
    IF ms = {} THEN {<<>>}
    ELSE UNION {{<<m>> \o rest : rest \in Orders(ms \ {m})} : m \in ms}

RECURSIVE InsertionOrder(_)
\* the rows by ascending id, the order of a heap scan after inserts alone
InsertionOrder(ms) ==
    IF ms = {} THEN <<>>
    ELSE LET newest == CHOOSE m \in ms : \A o \in ms : o.id <= m.id
         IN  InsertionOrder(ms \ {newest}) \o <<newest>>

Take(seq, n) == SubSeq(seq, 1, IF Len(seq) < n THEN Len(seq) ELSE n)

Feed(queryAll, fs, uid) ==
    LET user_ids_cur_user_is_following == Following(fs, uid)
        Followed(message) == message.user_id \in user_ids_cur_user_is_following
        followed_messages == SelectSeq(queryAll, Followed)
    IN  Take(followed_messages, FeedLimit)

homepage(c, queryAll) ==
    LET me == g_user(c)
    IN  /\ IF me # {}
           THEN last' = [op |-> "homepage", result |-> "home.html",
                         user |-> TheOne(me),
                         shown |-> Feed(queryAll, follows, TheOne(me))]
           ELSE last' = [op |-> "homepage", result |-> "home-anon.html"]
        /\ UNCHANGED <<inflight, tables, session, nextUserId, nextMsgId>>

Next ==
    \/ \E c \in OneClient, f \in SignupForms, valid \in BOOLEAN :
            /\ nextUserId <= MaxUserId
            /\ signup(c, f.username, f.email, f.password, f.salt, valid)
    \/ \E c \in OneClient, n \in Names, p \in Passwords, valid \in BOOLEAN :
            login(c, n, p, valid)
    \/ \E c \in OneClient, valid \in BOOLEAN : logout(c, valid)
    \/ \E c \in OneClient, id \in UserIds, valid \in BOOLEAN :
            start_following(c, id, valid)
    \/ \E c \in OneClient, id \in UserIds : stop_following(c, id)
    \/ \E c \in OneClient, valid \in BOOLEAN : delete_user(c, valid)
    \/ \E c \in OneClient, f \in SignupForms, p \in Passwords, valid \in BOOLEAN :
            \* a logged-in user submits the form as UserEditForm(obj=user) filled it
            /\ \A id \in g_user(c) : \E u \in UserGet(users, id) :
                    u.username = f.username /\ u.email = f.email
            /\ edit_profile(c, f.username, f.email, p, valid)
    \/ \E c \in OneClient, valid \in BOOLEAN :
            nextMsgId <= MaxMsgId /\ add_message(c, valid)
    \/ \E c \in OneClient, id \in MsgIds, valid \in BOOLEAN :
            delete_message(c, id, valid)
    \/ \E c \in OneClient, id \in MsgIds, valid \in BOOLEAN :
            toggle_like(c, id, valid)
    \/ \E c \in OneClient : \E queryAll \in Orders(messages) : homepage(c, queryAll)

Spec == Init /\ [][Next]_vars

\* Accounts alone, two browsers, every combination of credentials.
NextAuth ==
    \/ \E c \in Clients, n \in Names, e \in Emails, p \in Passwords,
          s \in Salts, valid \in BOOLEAN :
            nextUserId <= MaxUserId /\ signup(c, n, e, p, s, valid)
    \/ \E c \in Clients, n \in Names, p \in Passwords, valid \in BOOLEAN :
            login(c, n, p, valid)
    \/ \E c \in Clients, valid \in BOOLEAN : logout(c, valid)
    \/ \E c \in Clients, valid \in BOOLEAN : delete_user(c, valid)
    \/ \E c \in Clients, n \in Names, e \in Emails, p \in Passwords,
          valid \in BOOLEAN :
            edit_profile(c, n, e, p, valid)

SpecAuth == Init /\ [][NextAuth]_vars

\* The feed scenario: u1 (browser c1) and u2 (browser c2) are signed up and
\* logged in; u2 posts, u1 follows, unfollows and reads the home page.
InitFeed ==
    /\ users = {UserSignup(1, "u1", "u1@email.com", <<1>>, 1),
                UserSignup(2, "u2", "u2@email.com", <<1>>, 2)}
    /\ messages = {}
    /\ follows = EmptyTable
    /\ likes = EmptyTable
    /\ session = [c \in Clients |-> IF c = "c1" THEN {1} ELSE {2}]
    /\ nextUserId = 3
    /\ nextMsgId = 1
    /\ inflight = [c \in Clients |-> {}]
    /\ last = [op |-> "start"]

NextFeed ==
    \/ nextMsgId <= MaxFeedMsgId /\ add_message("c2", TRUE)
    \/ start_following("c1", 2, TRUE)
    \/ stop_following("c1", 2)
    \/ homepage("c1", InsertionOrder(messages))

SpecFeed == InitFeed /\ [][NextFeed]_vars

\* ------------------------------------------- concurrent requests (5)
\* Two requests overlap: each handler runs on the rows it has read up to its
\* db.session.commit(), and the flush then meets the tables as they are at
\* that moment.  A request is split at the commit into a _request step that
\* leaves its unit of work in flight and a _commit step that flushes it.
Unit(c) == TheOne(inflight[c])
Hold(c, unit) == [inflight EXCEPT ![c] = {unit}]
Release(c) == [inflight EXCEPT ![c] = {}]

start_following_request(c, follow_id, valid) ==
    LET me == g_user(c)
    IN  /\ inflight[c] = {}
        /\ IF ~valid \/ me = {}
           THEN /\ inflight' = inflight
                /\ last' = [op |-> "start_following", result |-> "Unauthorized"]
           ELSE IF UserGet(users, follow_id) = {}
           THEN /\ inflight' = inflight
                /\ last' = [op |-> "start_following", result |-> "404"]
           ELSE /\ inflight' = Hold(c, [op |-> "start_following",
                                       row |-> FollowRow(TheOne(me), follow_id)])
                /\ last' = [op |-> "start_following", result |-> "in flight"]
        /\ UNCHANGED <<tables, session, nextUserId, nextMsgId>>

start_following_commit(c) ==
    /\ inflight[c] # {}
    /\ Unit(c).op = "start_following"
    /\ LET appended == InsertRow(follows, Unit(c).row)
       IN  IF CommitAccepts(users, messages, appended, likes)
           THEN /\ follows' = appended
                /\ last' = [op |-> "start_following", result |-> "redirect"]
           ELSE /\ follows' = follows
                /\ last' = [op |-> "start_following", result |-> "IntegrityError"]
    /\ inflight' = Release(c)
    /\ UNCHANGED <<users, messages, likes, session, nextUserId, nextMsgId>>

\* toggle_like whose membership test never finds the message
toggle_like_request_NeverLiked(c, message_id, valid) ==
    LET me == g_user(c)
        message == MessageGet(messages, message_id)
    IN  /\ inflight[c] = {}
        /\ IF ~valid \/ me = {}
           THEN /\ inflight' = inflight
                /\ last' = [op |-> "toggle_like", arg |-> message_id,
                            csrf |-> valid, result |-> "Unauthorized"]
           ELSE IF message = {}
           THEN /\ inflight' = inflight
                /\ last' = [op |-> "toggle_like", arg |-> message_id,
                            csrf |-> valid, result |-> "404"]
           ELSE IF TheOne(message).user_id = TheOne(me)
           THEN /\ inflight' = inflight
                /\ last' = [op |-> "toggle_like", arg |-> message_id,
                            csrf |-> valid, result |-> "Unauthorized"]
           ELSE /\ inflight' = Hold(c, [op |-> "toggle_like",
                        row |-> LikeRow(TheOne(me), message_id),
                        liked |-> FALSE])
                /\ last' = [op |-> "toggle_like", arg |-> message_id,
                            csrf |-> valid, result |-> "in flight"]
        /\ UNCHANGED <<tables, session, nextUserId, nextMsgId>>

toggle_like_request(c, message_id, valid) ==
    LET me == g_user(c)
        message == MessageGet(messages, message_id)
    IN  /\ inflight[c] = {}
        /\ IF ~valid \/ me = {}
           THEN /\ inflight' = inflight
                /\ last' = [op |-> "toggle_like", arg |-> message_id,
                            csrf |-> valid, result |-> "Unauthorized"]
           ELSE IF message = {}
           THEN /\ inflight' = inflight
                /\ last' = [op |-> "toggle_like", arg |-> message_id,
                            csrf |-> valid, result |-> "404"]
           ELSE IF TheOne(message).user_id = TheOne(me)
           THEN /\ inflight' = inflight
                /\ last' = [op |-> "toggle_like", arg |-> message_id,
                            csrf |-> valid, result |-> "Unauthorized"]
           ELSE \* `if message in g.user.liked_messages` is decided here
                /\ inflight' = Hold(c, [op |-> "toggle_like",
                        row |-> LikeRow(TheOne(me), message_id),
                        liked |-> message_id \in LikedMessages(likes, TheOne(me))])
                /\ last' = [op |-> "toggle_like", arg |-> message_id,
                            csrf |-> valid, result |-> "in flight"]
        /\ UNCHANGED <<tables, session, nextUserId, nextMsgId>>

toggle_like_commit(c) ==
    /\ inflight[c] # {}
    /\ Unit(c).op = "toggle_like"
    /\ LET row == Unit(c).row
           appended == InsertRow(likes, row)
       IN  IF Unit(c).liked
           THEN IF row \in Rows(likes)
                THEN /\ likes' = DeleteRows(likes, {row})
                     /\ last' = [op |-> "toggle_like", arg |-> row.message_id,
                                 csrf |-> TRUE, result |-> "redirect"]
                ELSE \* the DELETE matches no row
                     /\ likes' = likes
                     /\ last' = [op |-> "toggle_like", arg |-> row.message_id,
                                 csrf |-> TRUE, result |-> "StaleDataError"]
           ELSE IF CommitAccepts(users, messages, follows, appended)
                THEN /\ likes' = appended
                     /\ last' = [op |-> "toggle_like", arg |-> row.message_id,
                                 csrf |-> TRUE, result |-> "redirect"]
                ELSE /\ likes' = likes
                     /\ last' = [op |-> "toggle_like", arg |-> row.message_id,
                                 csrf |-> TRUE, result |-> "IntegrityError"]
    /\ inflight' = Release(c)
    /\ UNCHANGED <<users, messages, follows, session, nextUserId, nextMsgId>>

signup_request(c, username, email, password, salt, valid) ==
    /\ inflight[c] = {}
    /\ session' = do_logout(session, c)
    /\ IF ~valid
       THEN /\ inflight' = inflight
            /\ last' = [op |-> "signup", result |-> "form"]
       ELSE /\ inflight' = Hold(c, [op |-> "signup", username |-> username,
                    email |-> email, password |-> password, salt |-> salt])
            /\ last' = [op |-> "signup", result |-> "in flight"]
    /\ UNCHANGED <<tables, nextUserId, nextMsgId>>

signup_commit(c) ==
    /\ inflight[c] # {}
    /\ Unit(c).op = "signup"
    /\ LET user == UserSignup(nextUserId, Unit(c).username, Unit(c).email,
                              Unit(c).password, Unit(c).salt)
       IN  IF CommitAccepts(users \cup {user}, messages, follows, likes)
           THEN /\ users' = users \cup {user}
                /\ nextUserId' = nextUserId + 1
                /\ session' = do_login(session, c, user.id)
                /\ last' = [op |-> "signup", username |-> user.username,
                            password |-> Unit(c).password,
                            id |-> user.id, result |-> "redirect"]
           ELSE /\ UNCHANGED <<users, nextUserId, session>>
                /\ last' = [op |-> "signup", username |-> user.username,
                            password |-> Unit(c).password,
                            result |-> "Username already taken"]
    /\ inflight' = Release(c)
    /\ UNCHANGED <<messages, follows, likes, nextMsgId>>

edit_profile_request(c, username, email, password, valid) ==
    LET me == g_user(c)
        user == TheOne(UserGet(users, TheOne(me)))
    IN  /\ inflight[c] = {}
        /\ IF ~valid
           THEN /\ inflight' = inflight
                /\ last' = [op |-> "edit_profile", result |-> "form"]
           ELSE IF me = {}
           THEN /\ inflight' = inflight
                /\ last' = [op |-> "edit_profile", result |-> "AttributeError"]
           ELSE IF UserAuthenticate(users, user.username, password) = {}
           THEN /\ inflight' = inflight
                /\ last' = [op |-> "edit_profile", result |->
                               "Incorrect username/password combination entered"]
           ELSE /\ inflight' = Hold(c, [op |-> "edit_profile", id |-> user.id,
                                       username |-> OneTuple(username),
                                       email |-> OneTuple(email)])
                /\ last' = [op |-> "edit_profile", result |-> "in flight"]
        /\ UNCHANGED <<tables, session, nextUserId, nextMsgId>>

edit_profile_commit(c) ==
    /\ inflight[c] # {}
    /\ Unit(c).op = "edit_profile"
    /\ LET stored == UserGet(users, Unit(c).id)
           flushed == [TheOne(stored) EXCEPT !.username = AdaptTuple(Unit(c).username),
                                             !.email = AdaptTuple(Unit(c).email)]
           updated == (users \ stored) \cup {flushed}
       IN  IF stored = {}
           THEN \* the UPDATE matches no row
                /\ users' = users
                /\ last' = [op |-> "edit_profile", result |-> "StaleDataError"]
           ELSE IF CommitAccepts(updated, messages, follows, likes)
           THEN /\ users' = updated
                /\ last' = [op |-> "edit_profile", result |-> "redirect"]
           ELSE /\ users' = users
                /\ last' = [op |-> "edit_profile", result |-> "IntegrityError"]
    /\ inflight' = Release(c)
    /\ UNCHANGED <<messages, follows, likes, session, nextUserId, nextMsgId>>

\* the third account of the tests, and the profile forms a user may submit
ThirdForm == [username |-> "u3", email |-> "u3@email.com", password |-> <<1>>, salt |-> 1]
ProfileForms == {[username |-> "u1", email |-> "u1@email.com"],
                 [username |-> "u3", email |-> "u3@email.com"]}

\* The scenario of the races: u1 and u2 exist, u2 has posted message 1, and
\* u1 is logged in from both browsers.
InitRace ==
    /\ users = {UserSignup(1, "u1", "u1@email.com", <<1>>, 1),
                UserSignup(2, "u2", "u2@email.com", <<1>>, 2)}
    /\ messages = {MessageRow(1, 2)}
    /\ follows = EmptyTable
    /\ likes = EmptyTable
    /\ session = [c \in Clients |-> {1}]
    /\ nextUserId = 3
    /\ nextMsgId = 2
    /\ inflight = [c \in Clients |-> {}]
    /\ last = [op |-> "start"]

NextRace ==
    \/ \E c \in Clients, id \in UserIds : start_following_request(c, id, TRUE)
    \/ \E c \in Clients : start_following_commit(c)
    \/ \E c \in Clients, m \in MsgIds : toggle_like_request(c, m, TRUE)
    \/ \E c \in Clients : toggle_like_commit(c)
    \/ \E c \in Clients :
            signup_request(c, ThirdForm.username, ThirdForm.email,
                           ThirdForm.password, ThirdForm.salt, TRUE)
    \/ \E c \in Clients : signup_commit(c)
    \/ \E c \in Clients, f \in ProfileForms, p \in Passwords :
            edit_profile_request(c, f.username, f.email, p, TRUE)
    \/ \E c \in Clients : edit_profile_commit(c)

SpecRace == InitRace /\ [][NextRace]_vars

\* ================================================================= claims
Me(c) == TheOne(g_user(c))
Range(seq) == {seq[i] : i \in 1..Len(seq)}
AuthorOf(ms, mid) == TheOne(MessageGet(ms, mid)).user_id

\* C1: after a committed signup(username, email, password), authenticate with
\* that username and password returns exactly the new user and authenticate
\* with any other password returns False; authenticate with a username no user
\* has returns False; a login request never raises, logs the client in only as
\* the user authenticate returned, and leaves the users table unchanged.
C1_AuthenticateAfterSignup ==
    [][/\ (last'.op = "signup" /\ last'.result = "redirect") =>
            \E u \in users' :
                /\ u.id = last'.id
                /\ u.username = last'.username
                /\ UserAuthenticate(users', last'.username, last'.password) = {u}
                /\ \A p \in Passwords \ {last'.password} :
                        UserAuthenticate(users', last'.username, p) = {}
       /\ \A n \in Names, p \in Passwords :
            (\A u \in users' : u.username # n) => UserAuthenticate(users', n, p) = {}
       /\ (last'.op = "login") =>
            /\ users' = users
            /\ last'.result \in {"redirect", "Invalid credentials.", "form"}
            /\ (last'.result = "redirect") =>
                 \E u \in UserAuthenticate(users, last'.username, last'.password) :
                    /\ u.username = last'.username
                    /\ \E c \in Clients : session' = do_login(session, c, u.id)
            /\ (last'.result = "Invalid credentials.") =>
                 /\ UserAuthenticate(users, last'.username, last'.password) = {}
                 /\ session' = session
      ]_vars

\* a login with the signup credentials has succeeded
C1_Witness ==
    /\ last.op = "login"
    /\ last.result = "redirect"
    /\ \E u \in users, c \in Clients :
            u.username = last.username /\ session[c] = {u.id}

\* C2: a signup with a username some user already has ends with the
\* duplicate-credential outcome "Username already taken", adds no user row,
\* and leaves exactly one user with that username.
C2_DuplicateUsernameRejected ==
    [][(/\ last'.op = "signup"
        /\ last'.result # "form"
        /\ \E u \in users : u.username = last'.username) =>
            /\ last'.result = "Username already taken"
            /\ users' = users
            /\ nextUserId' = nextUserId
            /\ Cardinality({u \in users' : u.username = last'.username}) = 1
      ]_vars

C2_Witness ==
    /\ last.op = "signup"
    /\ last.result = "Username already taken"
    /\ Cardinality({u \in users : u.username = last.username}) = 1

\* an authorised follow request of client c for the existing user b
FollowStep(c, b) ==
    /\ g_user(c) # {}
    /\ UserGet(users, b) # {}
    /\ start_following(c, b, TRUE)

\* after follow(a, b): b is followed by a, a is not followed by b, and every
\* other follow row is as before
FollowPost(a, b) ==
    /\ is_followed_by(follows', b, a)
    /\ ~is_followed_by(follows', a, b)
    /\ FollowRow(b, a) \notin Rows(follows')
    /\ DeleteRows(follows', {FollowRow(a, b)}) = DeleteRows(follows, {FollowRow(a, b)})

\* C3 as stated: for all users A and B, B not following A, follow(A, B) makes
\* B followed by A, leaves A not followed by B, and changes no other row.
C3_Original ==
    [][(last'.op = "start_following") => \A c \in Clients, b \in UserIds :
        (FollowStep(c, b) /\ ~is_followed_by(follows, Me(c), b))
            => FollowPost(Me(c), b)]_vars

\* C3 amended: the same for all distinct users A and B (follow(A, A) is
\* accepted and makes A followed by A).
C3_FollowAsymmetric ==
    [][(last'.op = "start_following") => \A c \in Clients, b \in UserIds :
        (FollowStep(c, b) /\ Me(c) # b /\ ~is_followed_by(follows, Me(c), b))
            => FollowPost(Me(c), b)]_vars

C3_Witness ==
    /\ last.op = "start_following"
    /\ last.result = "redirect"
    /\ \E a, b \in IdsOf(users) :
            /\ a # b
            /\ session["c1"] = {a}
            /\ is_followed_by(follows, b, a)
            /\ ~is_followed_by(follows, a, b)

\* C4: after unfollow(A, B) the row (A, B) is absent; the request completes
\* without failing, also when the row was absent before, and then leaves the
\* follows table unchanged.
C4_Original ==
    [][(last'.op = "stop_following") => \A c \in Clients, b \in UserIds :
        (g_user(c) # {} /\ UserGet(users, b) # {} /\ stop_following(c, b)) =>
            /\ FollowRow(Me(c), b) \notin Rows(follows')
            /\ last'.result = "redirect"
            /\ (FollowRow(Me(c), b) \notin Rows(follows)) => (follows' = follows)
      ]_vars

\* an authorised like request of client c for the existing message m of
\* another user
LikeStep(c, m) ==
    /\ g_user(c) # {}
    /\ MessageGet(messages, m) # {}
    /\ AuthorOf(messages, m) # Me(c)
    /\ toggle_like(c, m, TRUE)

\* C5: toggleLike(A, m) on another user's message adds the row (A, m) when
\* absent and removes it when present, touches no other row, the views
\* liked_messages(A) and users_liked_by(m) show the row exactly when it is
\* stored, and a second toggleLike(A, m) restores the likes table.
C5_ToggleRoundTrip ==
    [][(last'.op = "toggle_like") => \A c \in Clients, m \in MsgIds :
        LikeStep(c, m) =>
            /\ last'.result = "redirect"
            /\ (m \in LikedMessages(likes', Me(c))) <=> (m \notin LikedMessages(likes, Me(c)))
            /\ (Me(c) \in UsersLikedBy(likes', m)) <=> (LikeRow(Me(c), m) \in Rows(likes'))
            /\ (m \in LikedMessages(likes', Me(c))) <=> (LikeRow(Me(c), m) \in Rows(likes'))
            /\ DeleteRows(likes', {LikeRow(Me(c), m)}) = DeleteRows(likes, {LikeRow(Me(c), m)})
            /\ ToggleLike(likes', Me(c), m) = likes
            /\ UsersLikedBy(ToggleLike(likes', Me(c), m), m) = UsersLikedBy(likes, m)
      ]_vars

\* a like has been toggled on and off again: no like is stored after a toggle
C5_Witness ==
    /\ last.op = "toggle_like"
    /\ last.result = "redirect"
    /\ MessageGet(messages, last.arg) # {}
    /\ UsersLikedBy(likes, last.arg) = {}

\* C6: a toggleLike on the actor's own message fails with Unauthorized,
\* whatever likes are stored, and leaves the likes table unchanged.
C6_OwnMessageUnauthorized ==
    [][(last'.op = "toggle_like") => \A c \in Clients, m \in MsgIds, valid \in BOOLEAN :
        (/\ g_user(c) # {}
         /\ MessageGet(messages, m) # {}
         /\ AuthorOf(messages, m) = Me(c)
         /\ toggle_like(c, m, valid)) =>
            /\ last'.result = "Unauthorized"
            /\ likes' = likes
      ]_vars

\* the author, with a valid form, was refused on a message another user likes
C6_Witness ==
    /\ last.op = "toggle_like"
    /\ last.csrf
    /\ last.result = "Unauthorized"
    /\ g_user("c1") # {}
    /\ MessageGet(messages, last.arg) # {}
    /\ AuthorOf(messages, last.arg) = Me("c1")
    /\ UsersLikedBy(likes, last.arg) # {}

\* C7: after a successful deleteAccount(U) the user row of U, every message
\* by U and every like by U are gone, no message or like row names U, the
\* requesting session holds no logged-in user, and the other users, their
\* messages and their likes on other users' messages are unchanged.
C7_DeleteAccountEffect ==
    [][(last'.op = "delete_user") => \A c \in Clients :
        (g_user(c) # {} /\ delete_user(c, TRUE) /\ last'.result = "redirect") =>
            LET u == Me(c) IN
            /\ users' = {x \in users : x.id # u}
            /\ UserGet(users', u) = {}
            /\ messages' = {m \in messages : m.user_id # u}
            /\ \A l \in Rows(likes') : l.user_id # u /\ l \in Rows(likes)
            /\ \A l \in Rows(likes') : AuthorOf(messages', l.message_id) # u
            /\ \A l \in Rows(likes) :
                 (/\ l.user_id # u
                  /\ MessageGet(messages, l.message_id) # {}
                  /\ AuthorOf(messages, l.message_id) # u) => l \in Rows(likes')
            /\ session'[c] = {}
            /\ g_user(c)' = {}
      ]_vars

\* an account was deleted while another user and that user's message stay
C7_Witness ==
    /\ last.op = "delete_user"
    /\ last.result = "redirect"
    /\ session["c1"] = {}
    /\ \E u \in users : \E m \in messages : m.user_id = u.id

\* C8: deleteAccount is one unit: when the commit is rejected no row is
\* removed and the session is not invalidated.
C8_Original ==
    [][(last'.op = "delete_user") => \A c \in Clients :
        (g_user(c) # {} /\ delete_user(c, TRUE) /\ last'.result = "IntegrityError") =>
            /\ UNCHANGED tables
            /\ session' = session
      ]_vars

RECURSIVE MostRecentFirst(_)
MostRecentFirst(ms) ==
    IF ms = {} THEN <<>>
    ELSE LET newest == CHOOSE m \in ms : \A o \in ms : o.timestamp <= m.timestamp
         IN  <<newest>> \o MostRecentFirst(ms \ {newest})

\* the feed the claim describes
ExpectedFeed(ms, fs, uid) ==
    Take(MostRecentFirst({m \in ms : m.user_id = uid
                                     \/ m.user_id \in Following(fs, uid)}),
         FeedLimit)

\* C9: the home page of a logged-in user shows exactly the messages by the
\* user or by a followed user, most recent first, cut to the first 100.
C9_Original ==
    (last.op = "homepage" /\ last.result = "home.html") =>
        last.shown = ExpectedFeed(messages, follows, last.user)

\* C10: the feed follows the follow graph: while u1 follows u2 every message
\* of u2 is in feed(u1), whatever else is stored; once u1 has unfollowed u2
\* none is.
C10_Original ==
    (last.op = "homepage" /\ last.result = "home.html") =>
        \A m \in messages :
            (m.user_id # last.user) =>
                ((m \in Range(last.shown)) <=> (m.user_id \in Following(follows, last.user)))

\* C11: in every reachable state, after any sequence or interleaving of follow
\* requests (the same follow issued twice in a row, or by two requests that
\* overlap), the follows table holds at most one row for each
\* (follower, followee) pair.
C11_FollowEdgeUnique == \A row \in Rows(follows) : follows[row] <= 1

\* a second insert of the edge (u1, u2) has been flushed and turned down
C11_Witness ==
    /\ last.op = "start_following"
    /\ last.result = "IntegrityError"
    /\ FollowRow(1, 2) \in Rows(follows)
    /\ follows[FollowRow(1, 2)] = 1

\* C12 as stated: when two toggleLike(A, m) requests overlap, each doing its
\* membership check before either commits, no reachable state holds more than
\* one Like row for (A, m), and the check-then-act is atomic with respect to
\* the other request: what a request writes agrees with the membership of m in
\* A's likes at the moment it commits.
C12_Original ==
    [][/\ \A row \in Rows(likes') : likes'[row] <= 1
       /\ \A c \in Clients :
            toggle_like_commit(c) => (Unit(c).liked <=> Unit(c).row \in Rows(likes))]_vars

\* C12, amended: when two toggleLike(A, m) requests overlap, each doing its
\* membership check before either commits, no reachable state holds more than
\* one Like row for (A, m).  Each request decides on the membership it read; a
\* commit whose decision still agrees with the table toggles the row, and one
\* that the other request has overtaken writes nothing and ends in an error.
C12_LikeEdgeUnique ==
    [][/\ \A row \in Rows(likes') : likes'[row] <= 1
       /\ \A c \in Clients, m \in MsgIds :
            (toggle_like_request(c, m, TRUE) /\ inflight'[c] # {}) =>
                (TheOne(inflight'[c]).liked <=> LikeRow(Me(c), m) \in Rows(likes))
       /\ \A c \in Clients :
            toggle_like_commit(c) =>
                IF Unit(c).liked <=> Unit(c).row \in Rows(likes)
                THEN /\ last'.result = "redirect"
                     /\ Unit(c).row \in Rows(likes') <=> Unit(c).row \notin Rows(likes)
                     /\ DeleteRows(likes', {Unit(c).row}) = DeleteRows(likes, {Unit(c).row})
                ELSE /\ last'.result \in {"IntegrityError", "StaleDataError"}
                     /\ likes' = likes]_vars

\* the second of two overlapping likes has been flushed and turned down
C12_Witness ==
    /\ last.op = "toggle_like"
    /\ last.result = "IntegrityError"
    /\ LikeRow(1, 1) \in Rows(likes)
    /\ likes[LikeRow(1, 1)] = 1

\* C13: in every reachable state, under any sequence or interleaving of signup
\* and edit-profile requests (also an edit that changes the username or email
\* to one another user already has), no two users rows share a username and no
\* two share an email.
C13_CredentialsUnique ==
    \A u, v \in users : u.id # v.id => (u.username # v.username /\ u.email # v.email)

\* an edit that would have taken the name of the third account was turned down
C13_Witness ==
    /\ last.op = "edit_profile"
    /\ last.result = "IntegrityError"
    /\ \E u, v \in users : u.id # v.id /\ v.username = "u3"

\* the outcomes that report a refused request
Refused == {"Unauthorized", "Access unauthorized.", "404"}

\* C14: each mutating operation that needs an authenticated actor (follow,
\* unfollow, toggle like, add message, delete message, delete account, edit
\* profile), requested while no user is logged in, is reported as a failure
\* and leaves the users, messages, follows and likes tables unchanged.
C14_Original ==
    [][\A c \in Clients :
        g_user(c) = {} =>
            /\ (\E id \in UserIds, valid \in BOOLEAN :
                    \/ start_following(c, id, valid)
                    \/ stop_following(c, id))
                => (last'.result \in Refused /\ tables' = tables)
            /\ (\E m \in MsgIds, valid \in BOOLEAN :
                    \/ toggle_like(c, m, valid)
                    \/ delete_message(c, m, valid))
                => (last'.result \in Refused /\ tables' = tables)
            /\ (\E valid \in BOOLEAN : add_message(c, valid) \/ delete_user(c, valid))
                => (last'.result \in Refused /\ tables' = tables)
            /\ (\E f \in SignupForms, p \in Passwords, valid \in BOOLEAN :
                    edit_profile(c, f.username, f.email, p, valid))
                => (last'.result \in Refused /\ tables' = tables)]_vars

\* C15: edit profile re-validates the password.  When currentPassword does not
\* authenticate the logged-in user U the request reports invalid credentials
\* and U's stored record is unchanged; when it does, the stored username and
\* email equal the submitted values and the password hash is unchanged, so
\* that authenticate(submitted username, currentPassword) returns U afterward.
C15_Original ==
    [][(last'.op = "edit_profile") =>
        \A c \in Clients, n \in Names, e \in Emails, p \in Passwords :
            (g_user(c) # {} /\ edit_profile(c, n, e, p, TRUE)) =>
                LET U == TheOne(UserGet(users, Me(c)))
                IN  IF UserAuthenticate(users, U.username, p) = {}
                    THEN /\ last'.result = "Incorrect username/password combination entered"
                         /\ users' = users
                    ELSE \E V \in UserGet(users', U.id) :
                            /\ V.username = n
                            /\ V.email = e
                            /\ V.password = U.password
                            /\ UserAuthenticate(users', n, p) = {V}]_vars

\* C16: after any sequence of signup and edit-profile requests every user's
\* stored password is the hash of the password given at signup and never the
\* plaintext: signup stores a hash of the submitted password under some salt,
\* only signup adds a row, and no request changes the password of a row.
C16_PasswordHashed ==
    [][/\ (last'.op = "signup" /\ last'.result = "redirect") =>
            \E u \in users' \ users :
                /\ u.id = last'.id
                /\ \E s \in Salts : u.password = generate_password_hash(last'.password, s)
                /\ u.password # last'.password
       /\ \A u \in users, v \in users' : u.id = v.id => v.password = u.password
       /\ \A v \in users' : (\A u \in users : u.id # v.id) => last'.op = "signup"
       /\ \A v \in users', p \in Passwords : v.password # p]_vars

\* an accepted edit has renamed a user whose password still verifies
C16_Witness ==
    /\ last.op = "edit_profile"
    /\ last.result = "redirect"
    /\ \E u \in users : u.id = 1 /\ u.username = "u2" /\ u.email = "u1@email.com"
                         /\ \E p \in Passwords : check_password_hash(u.password, p)

\* C17: delete message removes m only for its author.  A request by another
\* logged-in user is rejected and the messages table is unchanged; a request
\* by the author removes exactly m, after which a lookup of m by id finds
\* nothing.
C17_Original ==
    [][(last'.op = "delete_message") =>
        \A c \in Clients, m \in MsgIds :
            (g_user(c) # {} /\ MessageGet(messages, m) # {} /\ delete_message(c, m, TRUE)) =>
                IF AuthorOf(messages, m) # Me(c)
                THEN /\ last'.result = "Access unauthorized."
                     /\ messages' = messages
                ELSE /\ messages' = messages \ MessageGet(messages, m)
                     /\ MessageGet(messages', m) = {}]_vars

\* C18: referential integrity holds in every reachable state: every
\* message's user_id, both endpoints of every follows row and every like's
\* user_id name a stored user, and every like's message_id names a stored
\* message; no request that deletes a user or a message leaves a follows or
\* likes row pointing at a removed row.
C18_ReferentialIntegrity ==
    /\ \A m \in messages : UserGet(users, m.user_id) # {}
    /\ \A f \in Rows(follows) :
            /\ UserGet(users, f.user_following_id) # {}
            /\ UserGet(users, f.user_being_followed_id) # {}
    /\ \A l \in Rows(likes) :
            /\ UserGet(users, l.user_id) # {}
            /\ MessageGet(messages, l.message_id) # {}

\* the author asked to delete a message that another user likes
C18_Witness ==
    /\ last.op = "delete_message"
    /\ last.result = "IntegrityError"
    /\ \E l \in Rows(likes) : AuthorOf(messages, l.message_id) # l.user_id

\* the session of c names a user that is no longer stored
Stale(c) == session[c] # {} /\ \A id \in session[c] : UserGet(users, id) = {}

\* C19: a session's logged-in user id is absent or was set by a successful
\* signup of, or a successful authenticate as, that user in that session; a
\* failed login leaves the session unchanged; logout and delete account
\* clear it; and a session whose id names a user deleted since (from another
\* session) is treated as not logged in by every later request.
C19_SessionIntegrity ==
    [][\A c \in Clients :
        /\ \/ session'[c] \subseteq session[c]
           \/ /\ last'.op \in {"signup", "login"}
              /\ last'.result = "redirect"
              /\ \E u \in users' :
                    /\ session'[c] = {u.id}
                    /\ UserAuthenticate(users', last'.username, last'.password) = {u}
        /\ (last'.op = "login" /\ last'.result # "redirect") => session' = session
        /\ (last'.op = "logout") => \A valid \in BOOLEAN :
            logout(c, valid) =>
                IF Stale(c) THEN last'.result = "Unauthorized Logout Attempted"
                ELSE (last'.result = "redirect") => session'[c] = {}
        /\ (last'.op = "delete_user") => \A valid \in BOOLEAN :
            delete_user(c, valid) =>
                IF Stale(c) THEN last'.result = "Access unauthorized." /\ tables' = tables
                ELSE (last'.result # "Access unauthorized.") => session'[c] = {}
        /\ (last'.op = "edit_profile" /\ Stale(c)) =>
            \A n \in Names, e \in Emails, p \in Passwords, valid \in BOOLEAN :
                edit_profile(c, n, e, p, valid) =>
                    (last'.result \in {"form", "AttributeError"} /\ tables' = tables)]_vars

\* a browser still holds the id of an account deleted from the other browser
C19_Witness ==
    /\ Stale("c2")
    /\ session["c1"] = {}
    /\ last.op = "delete_user"
    /\ last.result = "redirect"
====
